---- MODULE Spec2Model ----
(***************************************************************************)
(* Model of the health calculator of src/HCA.py (src/Kawaii.py has the     *)
(* same three calculators, one line earlier in the file).                  *)
(*                                                                         *)
(* Python values are modelled as follows.                                  *)
(*   - a str is a sequence of one-character strings, so that split,        *)
(*     replace, int, strptime and strftime are computed character by       *)
(*     character as the interpreter computes them;                         *)
(*   - an optional argument is a record [isNone, str] or [isNone, num];    *)
(*   - a datetime is a triple <<year, month, day>>;                        *)
(*   - a dict is a function whose DOMAIN is its key set;                   *)
(*   - a real is a fixed-point integer: BMI in hundredths, BMR in          *)
(*     thousandths of a kcal, TDEE and the calorie goals in 1/40000 kcal   *)
(*     (every activity multiplier is a multiple of 1/40);                  *)
(*   - an f-string message is a record naming the message and the values   *)
(*     embedded in it; a matplotlib figure is a record of what it draws;   *)
(*   - an exception that leaves a function is the field raised of its      *)
(*     outcome, the stores being as they were when it was raised.          *)
(*                                                                         *)
(* The fixed-point values are exact where Python computes in binary        *)
(* floating point; the inputs of the model are integers, and for them the  *)
(* two agree on every value the model compares (a BMI after rounding, a    *)
(* TDEE with 0). Message texts are those of HCA.py without their emoji and *)
(* greeting, which is where the two files differ.                          *)
(***************************************************************************)
EXTENDS Integers, Sequences, FiniteSets, TLC

(***************************************************************************)
(* Strings                                                                 *)
(***************************************************************************)
Digits == <<"0", "1", "2", "3", "4", "5", "6", "7", "8", "9">>

IsDigit(c) == \E i \in 1..10 : Digits[i] = c

DigitVal(c) == (CHOOSE i \in 1..10 : Digits[i] = c) - 1

DigitChar(n) == Digits[n + 1]

\* ASCII order of the characters a formatted date is made of
Ord(c) == IF c = "-" THEN 45 ELSE 48 + DigitVal(c)

AllDigits(s) == \A i \in 1..Len(s) : IsDigit(s[i])

RECURSIVE DigitsVal(_)
DigitsVal(s) ==
    IF s = <<>> THEN 0
    ELSE 10 * DigitsVal(SubSeq(s, 1, Len(s) - 1)) + DigitVal(s[Len(s)])

\* sep occurs in s at position i
OccursAt(s, sep, i) ==
    /\ i + Len(sep) - 1 <= Len(s)
    /\ \A j \in 1..Len(sep) : s[i + j - 1] = sep[j]

\* position of the first occurrence of sep in s, 0 when there is none
Find(s, sep) ==
    IF \E i \in 1..Len(s) : OccursAt(s, sep, i)
    THEN CHOOSE i \in 1..Len(s) :
            /\ OccursAt(s, sep, i)
            /\ \A k \in 1..(i - 1) : ~OccursAt(s, sep, k)
    ELSE 0

\* str.split(sep): the list of the parts between the occurrences of sep
RECURSIVE Split(_, _)
Split(s, sep) ==
    LET i == Find(s, sep) IN
    IF i = 0 THEN <<s>>
    ELSE <<SubSeq(s, 1, i - 1)>> \o Split(SubSeq(s, i + Len(sep), Len(s)), sep)

\* str.replace(old, new): every occurrence of old replaced, left to right
RECURSIVE Replace(_, _, _)
Replace(s, old, new) ==
    LET i == Find(s, old) IN
    IF i = 0 THEN s
    ELSE SubSeq(s, 1, i - 1) \o new
            \o Replace(SubSeq(s, i + Len(old), Len(s)), old, new)

RECURSIVE LStrip(_)
LStrip(s) == IF s # <<>> /\ s[1] = " " THEN LStrip(Tail(s)) ELSE s

RECURSIVE RStrip(_)
RStrip(s) ==
    IF s # <<>> /\ s[Len(s)] = " " THEN RStrip(SubSeq(s, 1, Len(s) - 1)) ELSE s

\* int(str): surrounding blanks stripped, an optional sign, then digits;
\* anything else raises ValueError (the underscores Python allows between
\* digits are not modelled: no text of the model has one)
ParseInt(s) ==
    LET t == RStrip(LStrip(s))
        signed == t # <<>> /\ t[1] \in {"+", "-"}
        body == IF signed THEN Tail(t) ELSE t
    IN  IF body # <<>> /\ AllDigits(body)
        THEN [raised |-> "none",
              val |-> IF signed /\ t[1] = "-" THEN 0 - DigitsVal(body)
                      ELSE DigitsVal(body)]
        ELSE [raised |-> "ValueError", val |-> 0]

\* the decimal digits of n, left-padded with zeros to the given width
RECURSIVE ZeroPad(_, _)
ZeroPad(n, width) ==
    IF width = 0 THEN <<>>
    ELSE Append(ZeroPad(n \div 10, width - 1), DigitChar(n % 10))

\* s sorts before t as Python compares two strings
RECURSIVE StrLess(_, _)
StrLess(s, t) ==
    IF t = <<>> THEN FALSE
    ELSE IF s = <<>> THEN TRUE
    ELSE IF s[1] # t[1] THEN Ord(s[1]) < Ord(t[1])
    ELSE StrLess(Tail(s), Tail(t))

(***************************************************************************)
(* Dates: datetime.strptime(s, '%Y-%m-%d'), strftime('%Y-%m-%d'), now()    *)
(***************************************************************************)
IsLeap(y) == (y % 4 = 0 /\ y % 100 # 0) \/ y % 400 = 0

DaysInMonth(y, m) ==
    IF m = 2 THEN (IF IsLeap(y) THEN 29 ELSE 28)
    ELSE IF m \in {4, 6, 9, 11} THEN 30 ELSE 31

\* strptime with the format '%Y-%m-%d': four digits, '-', one or two digits
\* of a month 1..12, '-', one or two digits of a day of that month; every
\* other text raises ValueError
strptime(date_str) ==
    LET parts == Split(date_str, <<"-">>)
        wellFormed ==
            /\ Len(parts) = 3
            /\ Len(parts[1]) = 4 /\ AllDigits(parts[1])
            /\ Len(parts[2]) \in {1, 2} /\ AllDigits(parts[2])
            /\ Len(parts[3]) \in {1, 2} /\ AllDigits(parts[3])
        y == DigitsVal(parts[1])
        m == DigitsVal(parts[2])
        d == DigitsVal(parts[3])
    IN  IF wellFormed /\ y >= 1 /\ m \in 1..12 /\ d \in 1..DaysInMonth(y, m)
        THEN [raised |-> "none", date |-> <<y, m, d>>]
        ELSE [raised |-> "ValueError", date |-> <<0, 0, 0>>]

\* date.strftime('%Y-%m-%d'): zero-padded year, month and day
strftime(date) ==
    ZeroPad(date[1], 4) \o <<"-">> \o ZeroPad(date[2], 2) \o <<"-">>
        \o ZeroPad(date[3], 2)

\* the calendar day after date (the wall clock passing midnight)
NextDay(date) ==
    LET y == date[1]
        m == date[2]
        d == date[3]
    IN  IF d < DaysInMonth(y, m) THEN <<y, m, d + 1>>
        ELSE IF m < 12 THEN <<y, m + 1, 1>>
        ELSE <<y + 1, 1, 1>>

(***************************************************************************)
(* Fixed-point arithmetic                                                  *)
(***************************************************************************)
RECURSIVE GCD(_, _)
GCD(a, b) == IF b = 0 THEN a ELSE GCD(b, a % b)

\* <<quotient, remainder>> of a * 10^k divided by d, one decimal digit at a
\* time so that no intermediate value leaves the 32-bit range
RECURSIVE DivScaled(_, _, _)
DivScaled(a, k, d) ==
    IF k = 0 THEN <<a \div d, a % d>>
    ELSE LET p == DivScaled(a, k - 1, d)
         IN  <<p[1] * 10 + (p[2] * 10) \div d, (p[2] * 10) % d>>

\* round(): the nearest integer to a * 10^k / d, a tie going to the even one
RoundHalfEven(a, k, d) ==
    LET g == GCD(a, d)
        p == DivScaled(a \div g, k, d \div g)
        q == p[1]
        r == p[2]
    IN  IF 2 * r > d \div g THEN q + 1
        ELSE IF 2 * r = d \div g THEN q + (q % 2)
        ELSE q

(***************************************************************************)
(* Python values                                                           *)
(***************************************************************************)
Str(s) == [isNone |-> FALSE, str |-> s]

NoneStr == [isNone |-> TRUE, str |-> <<>>]

Num(n) == [isNone |-> FALSE, num |-> n]

NoneNum == [isNone |-> TRUE, num |-> 0]

\* an empty dict
EmptyDict == [k \in {} |-> 0]

\* d[k] = v
SetItem(d, k, v) == [x \in (DOMAIN d) \cup {k} |-> IF x = k THEN v ELSE d[x]]

\* d.get(k, default)
Get(d, k, default) == IF k \in DOMAIN d THEN d[k] ELSE default

\* the slip of sorting with reverse=True
RECURSIVE SortedDescending(_)
SortedDescending(keys) ==
    IF keys = {} THEN <<>>
    ELSE LET greatest == CHOOSE x \in keys : \A y \in keys \ {x} : StrLess(y, x)
         IN  <<greatest>> \o SortedDescending(keys \ {greatest})

\* sorted(keys): the keys in ascending string order
RECURSIVE Sorted(_)
Sorted(keys) ==
    IF keys = {} THEN <<>>
    ELSE LET least == CHOOSE x \in keys : \A y \in keys \ {x} : StrLess(x, y)
         IN  <<least>> \o Sorted(keys \ {least})

(***************************************************************************)
(* Tab 1: BMI calculator                                                   *)
(***************************************************************************)
\* (height in 1/100 cm, weight in mg): inches * 2.54, pounds * 0.453592
convert_to_metric(height, weight, units) ==
    IF units = "in/lbs"
    THEN [height_cm |-> height * 254, weight_kg |-> weight * 453592]
    ELSE [height_cm |-> height * 100, weight_kg |-> weight * 1000000]

\* round(weight_kg / (height_cm / 100) ** 2, 2), in hundredths:
\* 100 * (mg / 10^6) / (cm100 / 10^4)^2 = mg * 10^4 / cm100^2
RoundedBmi(height_cm, weight_kg) ==
    RoundHalfEven(weight_kg, 4, height_cm * height_cm)

\* the category of a BMI given in hundredths
BmiCategory(bmi) ==
    IF bmi < 1850 THEN "Underweight"
    ELSE IF 1850 <= bmi /\ bmi < 2490 THEN "Normal weight"
    ELSE IF 2500 <= bmi /\ bmi < 2990 THEN "Overweight"
    ELSE "Obese"

\* the slip of keying the history by the text as it was typed
RecordBmiAsTyped(history, date, date_str, bmi) == SetItem(history, date_str, bmi)

\* bmi_history[date_str] = bmi, the key being the date formatted again
RecordBmi(history, date, date_str, bmi) == SetItem(history, strftime(date), bmi)

\* the slip of validating the height alone
InvalidHeight(height, weight) == height <= 0

\* line 36: a measurement that is not positive
InvalidMeasurement(height, weight) == height <= 0 \/ weight <= 0

\* the values returned and the bmi_history the call leaves
calculate_and_track_bmi(history, height, weight, units, date_str) ==
    IF InvalidMeasurement(height, weight)
    THEN [bmi |-> 0, category |-> "Invalid input",
          message |-> [text |-> "Please enter positive values for height and weight."],
          bmi_history |-> history]
    ELSE LET parsed == strptime(date_str) IN
    IF parsed.raised = "ValueError"
    THEN [bmi |-> 0, category |-> "Invalid date format",
          message |-> [text |-> "Please enter date in YYYY-MM-DD format."],
          bmi_history |-> history]
    ELSE LET metric == convert_to_metric(height, weight, units)
             bmi == RoundedBmi(metric.height_cm, metric.weight_kg)
             category == BmiCategory(bmi)
         IN  [bmi |-> bmi, category |-> category,
              message |-> [text |-> "Your BMI is {bmi}. Category: {category}",
                           bmi |-> bmi, category |-> category],
              bmi_history |-> RecordBmi(history, parsed.date, date_str, bmi)]

(***************************************************************************)
(* Tab 2: daily metabolic rate calculator                                  *)
(***************************************************************************)
ActivityLevels ==
    {"Sedentary (little to no exercise)", "Lightly active (1-3 days/week)",
     "Moderately active (3-5 days/week)", "Very active (6-7 days/week)",
     "Extra active (daily intense exercise)"}

\* the slip of a default of 1 for a level the table does not hold
ActivityMultiplierOrOne(activity_level) ==
    IF activity_level = "Sedentary (little to no exercise)" THEN 48
    ELSE IF activity_level = "Lightly active (1-3 days/week)" THEN 55
    ELSE IF activity_level = "Moderately active (3-5 days/week)" THEN 62
    ELSE IF activity_level = "Very active (6-7 days/week)" THEN 69
    ELSE IF activity_level = "Extra active (daily intense exercise)" THEN 76
    ELSE 40

\* activity_multipliers.get(activity_level, 1.2), in fortieths
ActivityMultiplier(activity_level) ==
    IF activity_level = "Sedentary (little to no exercise)" THEN 48
    ELSE IF activity_level = "Lightly active (1-3 days/week)" THEN 55
    ELSE IF activity_level = "Moderately active (3-5 days/week)" THEN 62
    ELSE IF activity_level = "Very active (6-7 days/week)" THEN 69
    ELSE IF activity_level = "Extra active (daily intense exercise)" THEN 76
    ELSE 48

\* the Harris-Benedict equation, in thousandths of a kcal
HarrisBenedict(age, gender, height, weight) ==
    IF gender = "Male"
    THEN 66500 + (13750 * weight) + (5003 * height) - (6750 * age)
    ELSE 655100 + (9563 * weight) + (1850 * height) - (4676 * age)

\* 500 kcal in units of 1/40000 kcal
Kcal500 == 500 * 40000

\* the slip of leaving the age out of the validation
InvalidBodySize(age, height, weight) == height <= 0 \/ weight <= 0

\* line 73: an age, height or weight that is not positive
InvalidEnergyInput(age, height, weight) == age <= 0 \/ height <= 0 \/ weight <= 0

\* the values returned and the tdee_value the call leaves; bmr is in
\* thousandths of a kcal, the other four in 1/40000 kcal
calculate_bmr_tdee(tdee_before, age, gender, height, weight, activity_level) ==
    IF InvalidEnergyInput(age, height, weight)
    THEN [bmr |-> 0, tdee |-> 0, maintenance |-> 0, loss_calories |-> 0,
          gain_calories |-> 0,
          message |-> [text |-> "Please enter positive values for age, height, and weight."],
          tdee_value |-> tdee_before]
    ELSE LET bmr == HarrisBenedict(age, gender, height, weight)
             tdee == bmr * ActivityMultiplier(activity_level)
         IN  [bmr |-> bmr, tdee |-> tdee, maintenance |-> tdee,
              loss_calories |-> tdee - Kcal500,
              gain_calories |-> tdee + Kcal500,
              message |-> [text |-> "Results updated successfully!"],
              tdee_value |-> tdee]

(***************************************************************************)
(* Tab 3: food tracker                                                     *)
(***************************************************************************)
Other == <<"O", "t", "h", "e", "r">>

SepDash == <<" ", "-", " ">>

SuffixKcal == <<" ", "k", "c", "a", "l">>

\* lines 108-117: the entry the three arguments resolve to. None has no
\* split method (AttributeError); int() raises ValueError on a text that is
\* no integer.
ResolveEntry(food, manual_food_name, manual_calories) ==
    IF food.isNone
    THEN [raised |-> "AttributeError", calories_to_add |-> 0, food_name_to_log |-> <<>>]
    ELSE IF food.str # Other
    THEN LET parts == Split(food.str, SepDash)
             parsed == ParseInt(Replace(parts[Len(parts)], SuffixKcal, <<>>))
         IN  IF parsed.raised = "ValueError"
             THEN [raised |-> "ValueError", calories_to_add |-> 0,
                   food_name_to_log |-> <<>>]
             ELSE [raised |-> "none", calories_to_add |-> parsed.val,
                   food_name_to_log |-> parts[1]]
    ELSE IF /\ ~manual_calories.isNone
            /\ manual_calories.num > 0
            /\ ~manual_food_name.isNone
            /\ manual_food_name.str # <<>>
    THEN [raised |-> "none", calories_to_add |-> manual_calories.num,
          food_name_to_log |-> manual_food_name.str]
    ELSE [raised |-> "none", calories_to_add |-> 0, food_name_to_log |-> <<>>]

\* the slip of validating the calories alone
InvalidCalories(calories_to_add, food_name_to_log) == calories_to_add <= 0

\* line 119: nothing to log
InvalidEntry(calories_to_add, food_name_to_log) ==
    calories_to_add <= 0 \/ food_name_to_log = <<>>

\* the slip of writing = for +=: today's total replaced
LogFoodOverwrite(calories, today_str, calories_to_add) ==
    SetItem(calories, today_str, calories_to_add)

\* lines 125-128: today's total increased, the entry created when absent
LogFood(calories, today_str, calories_to_add) ==
    IF today_str \in DOMAIN calories
    THEN [calories EXCEPT ![today_str] = @ + calories_to_add]
    ELSE SetItem(calories, today_str, calories_to_add)

\* create_empty_plot(message): a blank figure titled with the message
create_empty_plot(message) ==
    [kind |-> "empty", title |-> message, dates |-> <<>>, calories |-> <<>>,
     tdee_line |-> 0]

\* lines 140-167: one bar for each date in ascending order and the TDEE line
CaloriePlot(calories, tdee) ==
    LET dates == Sorted(DOMAIN calories) IN
    [kind |-> "bar", title |-> [text |-> "Daily Calorie Intake vs. TDEE"],
     dates |-> dates, calories |-> [i \in 1..Len(dates) |-> calories[dates[i]]],
     tdee_line |-> tdee]

InvalidEntryMessage ==
    [text |-> "Please enter a valid calorie amount and food name."]

TdeeFirstMessage == [text |-> "Please calculate your TDEE in Tab 2 first!"]

LoggedMessage(food_name_to_log, calories_to_add) ==
    [text |-> "Logged: {food_name_to_log} - {calories_to_add} kcal",
     food_name_to_log |-> food_name_to_log, calories_to_add |-> calories_to_add]

\* the slip of testing the sign: a TDEE of 0 passes the gate
TdeeNegative(tdee) == tdee < 0

\* lines 132-134: the shared TDEE is still the 0 the module starts with
TdeeMissing(tdee) == tdee = 0

\* the outcome of a call at the date the clock shows: the exception raised,
\* the three values returned and the daily_calories the call leaves
log_food_and_plot(calories, tdee, clock, food, manual_food_name, manual_calories) ==
    LET entry == ResolveEntry(food, manual_food_name, manual_calories)
        today_str == strftime(clock)
    IN
    IF entry.raised # "none"
    THEN [raised |-> entry.raised, total |-> 0,
          plot |-> create_empty_plot([text |-> ""]), message |-> [text |-> ""],
          daily_calories |-> calories]
    ELSE IF InvalidEntry(entry.calories_to_add, entry.food_name_to_log)
    THEN [raised |-> "none", total |-> Get(calories, today_str, 0),
          plot |-> create_empty_plot(InvalidEntryMessage),
          message |-> InvalidEntryMessage,
          daily_calories |-> calories]
    ELSE LET logged == LogFood(calories, today_str, entry.calories_to_add) IN
    IF TdeeMissing(tdee)
    THEN [raised |-> "none", total |-> Get(logged, today_str, 0),
          plot |-> create_empty_plot(TdeeFirstMessage),
          message |-> TdeeFirstMessage,
          daily_calories |-> logged]
    ELSE IF DOMAIN logged = {}
    THEN [raised |-> "none", total |-> 0,
          plot |-> create_empty_plot([text |-> "No Data to Display"]),
          message |-> [text |-> "No food logged yet."],
          daily_calories |-> logged]
    ELSE [raised |-> "none", total |-> Get(logged, today_str, 0),
          plot |-> CaloriePlot(logged, tdee),
          message |-> LoggedMessage(entry.food_name_to_log, entry.calories_to_add),
          daily_calories |-> logged]

(***************************************************************************)
(* The session: the module's global stores and the calls made on them      *)
(***************************************************************************)
VARIABLES
    bmi_history,      \* dict: formatted date -> BMI in hundredths
    daily_calories,   \* dict: formatted date -> calories logged that day
    tdee_value,       \* the shared TDEE, in 1/40000 kcal
    now,              \* the date datetime.now() shows
    ret,              \* the last call: arguments, stores before it, outcome
    energy_called,    \* history: some computeEnergy call has been made
    energy_succeeded, \* history: some computeEnergy call had valid inputs
    logged,           \* history: date -> sum of the calories logged on it
    recorded,         \* history: date -> BMI returned by the last good call
    last_tdee         \* history: tdee returned by the last good computeEnergy

vars == <<bmi_history, daily_calories, tdee_value, now, ret, energy_called,
          energy_succeeded, logged, recorded, last_tdee>>

\* bounds of the model
MaxDays == 1

MaxTotal == 225

StartDate == <<2024, 12, 31>>

RECURSIVE DayAfter(_)
DayAfter(k) == IF k = 0 THEN StartDate ELSE NextDay(DayAfter(k - 1))

\* the arguments the calls are made with
BmiHeights == {0, 67}

BmiWeights == {0, 70}

UnitChoices == {"cm/kg", "in/lbs"}

DateStrings ==
    {<<"2", "0", "2", "4", "-", "1", "2", "-", "3", "1">>,
     <<"2", "0", "2", "5", "-", "1", "-", "1">>,
     <<"2", "0", "2", "5", "-", "0", "1", "-", "0", "1">>,
     <<"2", "0", "2", "5", "-", "0", "2", "-", "3", "0">>,
     <<"3", "1", "/", "1", "2", "/", "2", "0", "2", "4">>}

\* <<age, height, weight>>: each of the three not positive in turn, an
\* ordinary adult, and the inputs at which the equation gives exactly 0
EnergyInputs ==
    {<<0, 250, 23>>, <<30, 0, 23>>, <<30, 250, 0>>, <<30, 250, 23>>,
     <<242, 250, 23>>}

ActivityChoices ==
    {"Sedentary (little to no exercise)", "Extra active (daily intense exercise)"}

Rice == <<"R", "i", "c", "e", " ", "-", " ", "1", "3", "0", " ", "k", "c", "a", "l">>

TomYumKung == <<"T", "o", "m", " ", "Y", "u", "m", " ", "K", "u", "n", "g", " ", "-", " ", "9", "0", " ", "k", "c", "a", "l">>

Apple == <<"A", "p", "p", "l", "e">>

\* a selection with no calorie suffix, one with no name, one with no calories
NoSuffix == <<"R", "i", "c", "e">>

NoName == <<" ", "-", " ", "7", "0", " ", "k", "c", "a", "l">>

NoCalories == <<"W", "a", "t", "e", "r", " ", "-", " ", "0", " ", "k", "c", "a", "l">>

FoodChoices == {Str(Rice), Str(Other), NoneStr, Str(NoSuffix), Str(NoName)}

ManualNames == {Str(<<>>), Str(Apple)}

ManualCalories == {Num(0), Num(95)}

\* every shape of the three arguments of the food log
AllFoodChoices == FoodChoices \cup {Str(TomYumKung), Str(NoCalories)}

AllManualNames == ManualNames \cup {NoneStr}

AllManualCalories == ManualCalories \cup {NoneNum, Num(0 - 5)}

Stores == [bmi_history |-> bmi_history, daily_calories |-> daily_calories,
           tdee_value |-> tdee_value]

Init ==
    /\ bmi_history = EmptyDict
    /\ daily_calories = EmptyDict
    /\ tdee_value = 0
    /\ now = StartDate
    /\ ret = [op |-> "none"]
    /\ energy_called = FALSE
    /\ energy_succeeded = FALSE
    /\ logged = EmptyDict
    /\ recorded = EmptyDict
    /\ last_tdee = 0

\* the BMI button: calculate_and_track_bmi on the four inputs
ComputeBmi(height, weight, units, date_str) ==
    LET out == calculate_and_track_bmi(bmi_history, height, weight, units, date_str)
        parsed == strptime(date_str)
    IN  /\ bmi_history' = out.bmi_history
        /\ ret' = [op |-> "computeBmi", height |-> height, weight |-> weight,
                   units |-> units, date_str |-> date_str, pre |-> Stores,
                   bmi |-> out.bmi, category |-> out.category,
                   message |-> out.message]
        /\ recorded' = IF height > 0 /\ weight > 0 /\ parsed.raised = "none"
                       THEN SetItem(recorded, parsed.date, out.bmi)
                       ELSE recorded
        /\ UNCHANGED <<daily_calories, tdee_value, now, energy_called,
                       energy_succeeded, logged, last_tdee>>

\* the energy button: calculate_bmr_tdee on the five inputs
ComputeEnergy(age, gender, height, weight, activity_level) ==
    LET out == calculate_bmr_tdee(tdee_value, age, gender, height, weight,
                                  activity_level)
    IN  /\ tdee_value' = out.tdee_value
        /\ ret' = [op |-> "computeEnergy", age |-> age, gender |-> gender,
                   height |-> height, weight |-> weight,
                   activity_level |-> activity_level, pre |-> Stores,
                   bmr |-> out.bmr, tdee |-> out.tdee,
                   maintenance |-> out.maintenance,
                   loss_calories |-> out.loss_calories,
                   gain_calories |-> out.gain_calories, message |-> out.message]
        /\ energy_called' = TRUE
        /\ energy_succeeded' =
              (energy_succeeded \/ (age > 0 /\ height > 0 /\ weight > 0))
        /\ last_tdee' = IF age > 0 /\ height > 0 /\ weight > 0
                        THEN out.tdee ELSE last_tdee
        /\ UNCHANGED <<bmi_history, daily_calories, now, logged, recorded>>

\* the log button: log_food_and_plot on the three inputs, at today's date
LogEntry(food, manual_food_name, manual_calories) ==
    LET out == log_food_and_plot(daily_calories, tdee_value, now, food,
                                 manual_food_name, manual_calories)
        entry == ResolveEntry(food, manual_food_name, manual_calories)
        success == /\ entry.raised = "none"
                   /\ entry.calories_to_add > 0
                   /\ entry.food_name_to_log # <<>>
    IN  /\ Get(logged, now, 0) + entry.calories_to_add <= MaxTotal
        /\ daily_calories' = out.daily_calories
        /\ ret' = [op |-> "logEntry", food |-> food,
                   manual_food_name |-> manual_food_name,
                   manual_calories |-> manual_calories, today |-> now,
                   pre |-> Stores, raised |-> out.raised, total |-> out.total,
                   plot |-> out.plot, message |-> out.message]
        /\ logged' = IF success
                     THEN SetItem(logged, now, Get(logged, now, 0) + entry.calories_to_add)
                     ELSE logged
        /\ UNCHANGED <<bmi_history, tdee_value, now, energy_called,
                       energy_succeeded, recorded, last_tdee>>

\* midnight passes
Tick ==
    /\ now # DayAfter(MaxDays)
    /\ now' = NextDay(now)
    /\ UNCHANGED <<bmi_history, daily_calories, tdee_value, ret, energy_called,
                   energy_succeeded, logged, recorded, last_tdee>>

Next ==
    \/ ComputeBmi(67, 70, "cm/kg", <<"2", "0", "2", "5", "-", "1", "-", "1">>)
    \/ \E input \in EnergyInputs, activity_level \in ActivityChoices :
            ComputeEnergy(input[1], "Male", input[2], input[3], activity_level)
    \/ \E food \in FoodChoices, manual_food_name \in ManualNames,
          manual_calories \in ManualCalories :
            LogEntry(food, manual_food_name, manual_calories)
    \/ Tick

\* a session of calls in any order
Spec == Init /\ [][Next]_vars

\* a session of BMI calls over every shape of their arguments
NextBmi ==
    \E height \in BmiHeights, weight \in BmiWeights, units \in UnitChoices,
       date_str \in DateStrings :
        ComputeBmi(height, weight, units, date_str)

SpecBmi == Init /\ [][NextBmi]_vars

\* a day of food logging over every shape of the three arguments, before
\* and after the TDEE is computed
NextLog ==
    \/ \E food \in AllFoodChoices, manual_food_name \in AllManualNames,
          manual_calories \in AllManualCalories :
            LogEntry(food, manual_food_name, manual_calories)
    \/ ComputeEnergy(30, "Female", 250, 23, "Couch")

SpecLog == Init /\ [][NextLog]_vars

(***************************************************************************)
(* Properties                                                              *)
(***************************************************************************)
\* the entry the last logEntry call resolved
RetEntry == ResolveEntry(ret.food, ret.manual_food_name, ret.manual_calories)

\* the last call is a logEntry that logged its entry
Logged ==
    /\ ret.op = "logEntry"
    /\ RetEntry.raised = "none"
    /\ RetEntry.calories_to_add > 0
    /\ RetEntry.food_name_to_log # <<>>

\* the key of the day of the last logEntry call
RetDay == strftime(ret.today)

\* today's total is what it was before the last call plus the calories logged
TodayIncreased ==
    /\ RetDay \in DOMAIN daily_calories
    /\ daily_calories[RetDay] =
          Get(ret.pre.daily_calories, RetDay, 0) + RetEntry.calories_to_add

\* C1: the total stored for each date is the sum of the calories of the
\* successful logEntry calls made on that date; a successful call adds its
\* calories to the total of its day, creating the entry when absent, returns
\* the new total and leaves the total of every other date as it was.
C1_TotalsAreSums ==
    /\ DOMAIN daily_calories = {strftime(d) : d \in DOMAIN logged}
    /\ \A d \in DOMAIN logged : daily_calories[strftime(d)] = logged[d]
    /\ Logged =>
          /\ TodayIncreased
          /\ ret.total = daily_calories[RetDay]
          /\ DOMAIN daily_calories = DOMAIN ret.pre.daily_calories \cup {RetDay}
          /\ \A k \in DOMAIN ret.pre.daily_calories \ {RetDay} :
                daily_calories[k] = ret.pre.daily_calories[k]

\* two entries logged on one day while another day keeps its own total
C1_Witness ==
    /\ Logged
    /\ RetDay \in DOMAIN ret.pre.daily_calories
    /\ ret.total = 225
    /\ \E k \in DOMAIN daily_calories : k # RetDay /\ daily_calories[k] = 130

\* C2: as long as no computeEnergy call has been made, a logEntry call that
\* logs an entry returns the "calculate your TDEE first" placeholder for a
\* chart, and today's total is increased all the same.
C2_GatedBeforeEnergy ==
    (~energy_called /\ Logged) =>
        /\ ret.plot = create_empty_plot(TdeeFirstMessage)
        /\ TodayIncreased

C2_Witness == ~energy_called /\ Logged /\ ret.total = 130

\* C3: once a computeEnergy call has succeeded, no later logEntry call that
\* logs an entry returns the "calculate your TDEE first" placeholder.
C3_GateStaysOpen ==
    (energy_succeeded /\ Logged) => ret.plot.title # TdeeFirstMessage

\* C4: every logEntry call that logs an entry returns the message that
\* embeds the logged name and the logged amount, whatever the TDEE is.
C4_SuccessMessage ==
    Logged =>
        /\ ret.message.text = "Logged: {food_name_to_log} - {calories_to_add} kcal"
        /\ ret.message =
              LoggedMessage(RetEntry.food_name_to_log, RetEntry.calories_to_add)

\* the date texts of the model that are no date written YYYY-MM-DD
UnparsableDates ==
    {<<"2", "0", "2", "5", "-", "0", "2", "-", "3", "0">>,
     <<"3", "1", "/", "1", "2", "/", "2", "0", "2", "4">>}

BmiUnchanged == bmi_history = ret.pre.bmi_history

\* C5 as stated: a computeBmi call with a height or weight that is not
\* positive returns bmi 0 and 'Invalid input', a call with a date that does
\* not parse returns bmi 0 and 'Invalid date format', and neither changes
\* the BMI history.
C5_AsStated ==
    ret.op = "computeBmi" =>
        /\ (ret.height <= 0 \/ ret.weight <= 0) =>
              (ret.bmi = 0 /\ ret.category = "Invalid input" /\ BmiUnchanged)
        /\ ret.date_str \in UnparsableDates =>
              (ret.bmi = 0 /\ ret.category = "Invalid date format" /\ BmiUnchanged)

\* C5 as amended: the measurement is validated first, so it is a call with
\* a positive height and weight and a date that does not parse that returns
\* bmi 0 and 'Invalid date format'; a call with a height or weight that is
\* not positive returns bmi 0 and 'Invalid input' whatever its date is.
\* Neither changes the BMI history.
C5_InvalidCalls ==
    ret.op = "computeBmi" =>
        /\ (ret.height <= 0 \/ ret.weight <= 0) =>
              (ret.bmi = 0 /\ ret.category = "Invalid input" /\ BmiUnchanged)
        /\ (ret.height > 0 /\ ret.weight > 0 /\ ret.date_str \in UnparsableDates) =>
              (ret.bmi = 0 /\ ret.category = "Invalid date format" /\ BmiUnchanged)

\* a rejected measurement with a date that does not parse either, made on a
\* history that holds an entry
C5_Witness ==
    /\ ret.op = "computeBmi"
    /\ ret.weight <= 0
    /\ ret.date_str \in UnparsableDates
    /\ ret.category = "Invalid input"
    /\ DOMAIN bmi_history # {}

\* C6: the BMI history holds one entry for each date of a successful
\* computeBmi call and no other, and the value stored for a date is the bmi
\* the most recent successful call for that date returned.
C6_LastWriteWins ==
    /\ DOMAIN bmi_history = {strftime(d) : d \in DOMAIN recorded}
    /\ Cardinality(DOMAIN bmi_history) = Cardinality(DOMAIN recorded)
    /\ \A d \in DOMAIN recorded : bmi_history[strftime(d)] = recorded[d]

\* a date written differently from the first time gets its entry replaced
\* by another bmi, next to the entry of another date
C6_Witness ==
    /\ ret.op = "computeBmi"
    /\ ret.date_str = <<"2", "0", "2", "5", "-", "1", "-", "1">>
    /\ <<"2", "0", "2", "5", "-", "0", "1", "-", "0", "1">> \in DOMAIN ret.pre.bmi_history
    /\ ret.pre.bmi_history[<<"2", "0", "2", "5", "-", "0", "1", "-", "0", "1">>] # ret.bmi
    /\ bmi_history[<<"2", "0", "2", "5", "-", "0", "1", "-", "0", "1">>] = ret.bmi
    /\ Cardinality(DOMAIN bmi_history) = 2

\* the last call is a logEntry whose resolved entry has no calories or no name
SoftFailed ==
    /\ ret.op = "logEntry"
    /\ RetEntry.raised = "none"
    /\ (RetEntry.calories_to_add <= 0 \/ RetEntry.food_name_to_log = <<>>)

\* C7: a logEntry call whose resolved calories are not positive or whose
\* resolved name is empty returns today's total as it stands (0 when today
\* has no entry), a placeholder chart and a message, and changes neither the
\* calorie ledger nor the shared TDEE nor the BMI history.
C7_SoftFailure ==
    SoftFailed =>
        /\ ret.total = Get(ret.pre.daily_calories, RetDay, 0)
        /\ ret.plot.kind = "empty"
        /\ ret.message = InvalidEntryMessage
        /\ daily_calories = ret.pre.daily_calories
        /\ tdee_value = ret.pre.tdee_value
        /\ bmi_history = ret.pre.bmi_history

\* a selection with calories but no name rejected on a day that has a total,
\* with a TDEE and a BMI stored
C7_Witness ==
    /\ SoftFailed
    /\ RetEntry.calories_to_add > 0
    /\ ret.total = 130
    /\ tdee_value # 0
    /\ DOMAIN bmi_history # {}

\* the last call is a computeEnergy with an input that is not positive
EnergyRejected ==
    /\ ret.op = "computeEnergy"
    /\ (ret.age <= 0 \/ ret.height <= 0 \/ ret.weight <= 0)

\* C8: a computeEnergy call with an age, height or weight that is not
\* positive returns 0 for bmr, tdee, maintenance, loss target and gain
\* target together with a message, and leaves the shared TDEE as it was.
C8_EnergyInvalid ==
    EnergyRejected =>
        /\ ret.bmr = 0
        /\ ret.tdee = 0
        /\ ret.maintenance = 0
        /\ ret.loss_calories = 0
        /\ ret.gain_calories = 0
        /\ ret.message.text = "Please enter positive values for age, height, and weight."
        /\ tdee_value = ret.pre.tdee_value

\* an age of 0 rejected after a TDEE was stored
C8_Witness == EnergyRejected /\ ret.age <= 0 /\ ret.pre.tdee_value > 0

\* the selections of the model whose text after the last ' - ' is not
\* '<integer> kcal'
MalformedSelections == {Str(NoSuffix)}

\* C9: a logEntry call with a malformed catalog selection returns a result
\* with a message, no parse fault reaching the caller, and leaves the
\* calorie ledger as it was.
C9_MalformedIsValidation ==
    (ret.op = "logEntry" /\ ret.food \in MalformedSelections) =>
        /\ ret.raised = "none"
        /\ ret.message.text # ""
        /\ daily_calories = ret.pre.daily_calories

\* the name and the calories of the catalog entries of the model
CatalogName(food) ==
    IF food = Str(Rice) THEN <<"R", "i", "c", "e">>
    ELSE <<"T", "o", "m", " ", "Y", "u", "m", " ", "K", "u", "n", "g">>

CatalogCalories(food) == IF food = Str(Rice) THEN 130 ELSE 90

\* the last call returned normally having logged the given entry
LoggedAs(name, calories) ==
    /\ ret.raised = "none"
    /\ RetDay \in DOMAIN daily_calories
    /\ daily_calories[RetDay] = Get(ret.pre.daily_calories, RetDay, 0) + calories
    /\ ret.total = daily_calories[RetDay]
    /\ IF ret.pre.tdee_value = 0
       THEN ret.message = TdeeFirstMessage
       ELSE /\ ret.message.text = "Logged: {food_name_to_log} - {calories_to_add} kcal"
            /\ ret.message.food_name_to_log = name
            /\ ret.message.calories_to_add = calories

\* the last call returned the soft failure
Rejected ==
    /\ ret.raised = "none"
    /\ ret.message = InvalidEntryMessage
    /\ ret.plot.kind = "empty"
    /\ daily_calories = ret.pre.daily_calories

\* C10: a catalog selection other than 'Other' supplies the name and the
\* calories whatever the manual fields are; a selection of 'Other' or null
\* uses the manual entry when its calories are positive and its name is not
\* empty; every other call returns the soft failure.
C10_ResolutionOrder ==
    ret.op = "logEntry" =>
        IF ret.food \in {Str(Rice), Str(TomYumKung)}
        THEN LoggedAs(CatalogName(ret.food), CatalogCalories(ret.food))
        ELSE IF ret.food \in {Str(Other), NoneStr}
        THEN IF /\ ~ret.manual_calories.isNone
                /\ ret.manual_calories.num > 0
                /\ ~ret.manual_food_name.isNone
                /\ ret.manual_food_name.str # <<>>
             THEN LoggedAs(ret.manual_food_name.str, ret.manual_calories.num)
             ELSE Rejected
        ELSE TRUE

(***************************************************************************)
(* BMI categories                                                          *)
(***************************************************************************)
\* heights in cm and weights in kg whose BMI lies on each side of 18.5,
\* 24.9, 25 and 29.9, and on 18.5, 25 and 30 themselves
CategoryHeights == {170, 200}

CategoryWeights == {53, 54, 71, 72, 73, 74, 86, 87, 99, 100, 119, 120}

\* a session of BMI calls of one day over these measurements
NextCategory ==
    \E height \in CategoryHeights, weight \in CategoryWeights :
        ComputeBmi(height, weight, "cm/kg", <<"2", "0", "2", "5", "-", "0", "1", "-", "0", "1">>)

SpecCategory == Init /\ [][NextCategory]_vars

\* the categories in increasing order of BMI
CategoryRank(category) ==
    IF category = "Underweight" THEN 1
    ELSE IF category = "Normal weight" THEN 2
    ELSE IF category = "Overweight" THEN 3
    ELSE 4

\* the last call is a computeBmi that returned a BMI
BmiReturned ==
    /\ ret.op = "computeBmi"
    /\ ret.category \notin {"Invalid input", "Invalid date format"}

\* the table of the claim, on a BMI in hundredths
TableCategory(b) ==
    IF b < 1850 THEN "Underweight"
    ELSE IF b < 2490 THEN "Normal weight"
    ELSE IF 2500 <= b /\ b < 2990 THEN "Overweight"
    ELSE "Obese"

\* C11: the category returned with a BMI b is Underweight for b < 18.5,
\* Normal weight for 18.5 <= b < 24.9, Overweight for 25 <= b < 29.9 and
\* Obese otherwise, and a BMI that is not lower than one returned before
\* never gets a lower category than that one got.
C11_CategoriesInOrder ==
    BmiReturned =>
        /\ ret.category = TableCategory(ret.bmi)
        /\ \A k \in DOMAIN ret.pre.bmi_history :
              ret.pre.bmi_history[k] <= ret.bmi =>
                 CategoryRank(BmiCategory(ret.pre.bmi_history[k]))
                    <= CategoryRank(ret.category)

(***************************************************************************)
(* Energy values                                                           *)
(***************************************************************************)
\* an age that is rejected and an adult's, two body sizes, both genders,
\* the five levels of the table and one it does not hold
EnergyAges == {0, 30}

EnergyBodies == {<<170, 70>>, <<250, 23>>}

Genders == {"Male", "Female"}

AllActivityChoices == ActivityLevels \cup {"Couch"}

\* a session of energy calls over these inputs
NextEnergy ==
    \E age \in EnergyAges, gender \in Genders, body \in EnergyBodies,
       activity_level \in AllActivityChoices :
        ComputeEnergy(age, gender, body[1], body[2], activity_level)

SpecEnergy == Init /\ [][NextEnergy]_vars

\* the last call is a computeEnergy with valid inputs
EnergyComputed ==
    /\ ret.op = "computeEnergy"
    /\ ret.age > 0 /\ ret.height > 0 /\ ret.weight > 0

\* the multipliers of the claim, in fortieths: 1.2, 1.375, 1.55, 1.725, 1.9
\* and 1.2 for any other level
ClaimedMultiplier(activity_level) ==
    CASE activity_level = "Sedentary (little to no exercise)" -> 48
      [] activity_level = "Lightly active (1-3 days/week)" -> 55
      [] activity_level = "Moderately active (3-5 days/week)" -> 62
      [] activity_level = "Very active (6-7 days/week)" -> 69
      [] activity_level = "Extra active (daily intense exercise)" -> 76
      [] OTHER -> 48

\* C12: a successful computeEnergy call returns tdee = bmr x multiplier of
\* its activity level (1.2 for a level that is not recognized), maintenance
\* = tdee, loss target = tdee - 500 and gain target = tdee + 500, and leaves
\* the shared TDEE equal to the tdee it returned. (bmr is in thousandths of
\* a kcal and the multiplier in fortieths, the other values in 1/40000 kcal.)
C12_EnergyValues ==
    EnergyComputed =>
        /\ ret.tdee = ret.bmr * ClaimedMultiplier(ret.activity_level)
        /\ ret.maintenance = ret.tdee
        /\ ret.loss_calories = ret.tdee - 500 * 40000
        /\ ret.gain_calories = ret.tdee + 500 * 40000
        /\ tdee_value = ret.tdee

\* a level the table does not hold, the call replacing an earlier TDEE
C12_Witness ==
    /\ EnergyComputed
    /\ ret.activity_level = "Couch"
    /\ ret.pre.tdee_value # 0
    /\ ret.pre.tdee_value # ret.tdee
    /\ tdee_value = ret.tdee

(***************************************************************************)
(* The chart                                                               *)
(***************************************************************************)
\* the calendar date a comes before the calendar date b
DateBefore(a, b) ==
    \/ a[1] < b[1]
    \/ a[1] = b[1] /\ a[2] < b[2]
    \/ a[1] = b[1] /\ a[2] = b[2] /\ a[3] < b[3]

\* C13: a logEntry call that logs its entry while the shared TDEE is not 0
\* returns a chart with one bar for each date of the calorie ledger as the
\* call leaves it, in ascending order of date, each bar that date's total,
\* and a reference line at the shared TDEE, which is the tdee the most
\* recent successful computeEnergy call returned.
C13_Chart ==
    (Logged /\ ret.pre.tdee_value # 0) =>
        LET dates == ret.plot.dates IN
        /\ ret.plot.kind = "bar"
        /\ Len(dates) = Cardinality(DOMAIN daily_calories)
        /\ {dates[i] : i \in 1..Len(dates)} = DOMAIN daily_calories
        /\ Len(ret.plot.calories) = Len(dates)
        /\ \A i \in 1..Len(dates) : ret.plot.calories[i] = daily_calories[dates[i]]
        /\ \A i \in 1..Len(dates) : \A j \in 1..Len(dates) :
              i < j => DateBefore(strptime(dates[i]).date, strptime(dates[j]).date)
        /\ ret.plot.tdee_line = tdee_value
        /\ energy_succeeded
        /\ tdee_value = last_tdee

\* a chart of two days either side of the new year, the second day holding
\* two entries, under the TDEE of an extra active adult (bmr 1431 kcal x 1.9)
C13_Witness ==
    /\ Logged
    /\ ret.plot.kind = "bar"
    /\ ret.plot.dates = <<<<"2", "0", "2", "4", "-", "1", "2", "-", "3", "1">>,
                          <<"2", "0", "2", "5", "-", "0", "1", "-", "0", "1">>>>
    /\ ret.plot.calories = <<130, 225>>
    /\ ret.plot.tdee_line = 1431000 * 76

====
